---- MODULE Spec2Model ----
(***************************************************************************)
(* The file-extraction utilities of the repository: pdf_reader (read_pdf,  *)
(* extract_text_by_page) and xlsx_reader (read_xlsx, extract_sheets).      *)
(* A call is a small sequential program: build the Path, test existence,   *)
(* open the file with the parsing library inside try/except, iterate the   *)
(* pages or sheets, return.  The parsing libraries and the file system are *)
(* the environment: a file's content decides what the library yields or    *)
(* raises.  Strings are sequences of one-character strings.                *)
(* The backend application (apps/backend) is a second program: a request   *)
(* is received, routed to its handler, and answered.  The secure CORS      *)
(* example (examples/02-fix-security-issue/after.py) is a third: it reads   *)
(* its allowed origins from the environment when it is imported.           *)
(***************************************************************************)
EXTENDS Integers, Sequences, FiniteSets, TLC

\* ------------------------------------------------------------------ bounds
\* Largest number of pages of a document in the initial file system.
MaxPages == 2
\* Largest number of rows of a sheet in the initial file system.
MaxRows == 2
\* Last value of the backend's clock.
MaxClock == 3
\* Largest length of a value of the ALLOWED_ORIGINS environment variable.
MaxEnvLen == 3

\* ------------------------------------------------------------------ strings
RECURSIVE Join(_, _)
\* str.join: sep.join(parts)
Join(sep, parts) ==
    IF Len(parts) = 0 THEN <<>>
    ELSE IF Len(parts) = 1 THEN parts[1]
    ELSE parts[1] \o sep \o Join(sep, Tail(parts))

\* The characters str.strip() removes (of the characters the model uses).
Whitespace == {" ", "\n"}

RECURSIVE LStrip(_)
LStrip(s) ==
    IF Len(s) > 0 /\ s[1] \in Whitespace THEN LStrip(Tail(s)) ELSE s

RECURSIVE RStrip(_)
RStrip(s) ==
    IF Len(s) > 0 /\ s[Len(s)] \in Whitespace
    THEN RStrip(SubSeq(s, 1, Len(s) - 1)) ELSE s

\* str.strip()
Strip(s) == RStrip(LStrip(s))

\* Whether p occurs in s as a contiguous substring.
Contains(s, p) ==
    \E i \in 0..(Len(s) - Len(p)) : SubSeq(s, i + 1, i + Len(p)) = p

\* ------------------------------------------------------------------ paths
RECURSIVE SplitSlash(_, _, _)
\* The "/"-separated components of s (cur is the component being read).
SplitSlash(s, cur, out) ==
    IF Len(s) = 0 THEN Append(out, cur)
    ELSE IF s[1] = "/" THEN SplitSlash(Tail(s), <<>>, Append(out, cur))
    ELSE SplitSlash(Tail(s), Append(cur, s[1]), out)

RECURSIVE DropTrivial(_)
\* pathlib drops empty components and "." components.
DropTrivial(parts) ==
    IF Len(parts) = 0 THEN <<>>
    ELSE IF parts[1] = <<>> \/ parts[1] = <<".">> THEN DropTrivial(Tail(parts))
    ELSE <<parts[1]>> \o DropTrivial(Tail(parts))

\* str(Path(file_path)) for a POSIX path string: repeated slashes and "."
\* components collapse, a trailing slash goes, the empty path is "."; the
\* root is "/", or "//" for exactly two leading slashes.
Path(file_path) ==
    LET parts == DropTrivial(SplitSlash(file_path, <<>>, <<>>))
        lead(n) == Len(file_path) >= n /\ \A i \in 1..n : file_path[i] = "/"
        root  == IF lead(2) /\ ~lead(3) THEN <<"/", "/">>
                 ELSE IF lead(1) THEN <<"/">> ELSE <<>>
        body  == root \o Join(<<"/">>, parts)
    IN  IF Len(body) = 0 THEN <<".">> ELSE body

\* The path strings callers supply.
PathStrings == { <<"f">>, <<".", "/", "f">>, <<"g", "/">>, <<>> }

\* The entries of the file system the paths above resolve to.
FsPaths == { <<"f">>, <<"g">>, <<".">> }

\* ------------------------------------------------------------------ errors
\* An exception: its type, str(e), and __cause__ (<<>> or <<the cause>>).
Error(kind, msg, cause) == [kind |-> kind, msg |-> msg, cause |-> cause]

\* What the parsing libraries and the operating system raise.
LibFileMissing == Error("FileNotFoundError", <<"E", "N", "O", "E", "N", "T">>, <<>>)
LibIsDirectory == Error("IsADirectoryError", <<"E", "I", "S", "D", "I", "R">>, <<>>)
LibPdfInvalid  == Error("PdfReadError", <<"E", "O", "F">>, <<>>)
LibPdfBadPage  == Error("PdfStreamError", <<"p", "a", "g", "e">>, <<>>)
LibZipInvalid  == Error("BadZipFile", <<"z", "i", "p">>, <<>>)
LibBadSheet    == Error("KeyError", <<"s", "h", "e", "e", "t">>, <<>>)
LibNotWorkbook == Error("KeyError", <<"n", "o", " ", "i", "t", "e", "m">>, <<>>)

PdfNotFoundPrefix   == <<"P", "D", "F", " ", "f", "i", "l", "e", " ", "n", "o", "t", " ", "f", "o", "u", "n", "d", ":", " ">>
PdfFailedPrefix     == <<"F", "a", "i", "l", "e", "d", " ", "t", "o", " ", "r", "e", "a", "d", " ", "P", "D", "F", ":", " ">>
ExcelNotFoundPrefix == <<"E", "x", "c", "e", "l", " ", "f", "i", "l", "e", " ", "n", "o", "t", " ", "f", "o", "u", "n", "d", ":", " ">>
ExcelFailedPrefix   == <<"F", "a", "i", "l", "e", "d", " ", "t", "o", " ", "r", "e", "a", "d", " ", "E", "x", "c", "e", "l", " ", "f", "i", "l", "e", ":", " ">>

\* ------------------------------------------------------------------ operations
PdfOps  == {"read_pdf", "extract_text_by_page"}
XlsxOps == {"read_xlsx", "extract_sheets"}
Ops     == PdfOps \cup XlsxOps

\* ------------------------------------------------------------------ file contents
SeqsUpTo(S, n) == UNION { [1..k -> S] : k \in 0..n }

\* Page texts the document library can give: empty, whitespace only, plain,
\* and text with whitespace around it.
PageTexts == { <<>>, <<" ">>, <<"x">>, <<" ", "x", "\n">> }

\* A page: its text, or a page whose extract_text() raises (ok = FALSE).
PageItems == [ok : {TRUE}, text : PageTexts] \cup {[ok |-> FALSE, text |-> <<>>]}

\* Cell values as iter_rows(values_only=True) gives them: (type, repr).
None      == <<"NoneType", "None">>
IntZero   == <<"int", "0">>
StrEmpty  == <<"str", "">>
BoolFalse == <<"bool", "False">>

\* A cell as the file stores it: the type and repr of its stored value and
\* its formula text ("" when the cell is no formula).  A formula's stored
\* value is the value last computed for it, None when none was computed.
ConstantCell(value)        == <<value[1], value[2], "">>
FormulaCell(text, cached)  == <<cached[1], cached[2], text>>

\* Rows a sheet can hold: an all-empty row, a row with an empty and a
\* non-empty cell, a narrower row, and a row of two formulas, one computed
\* to False and one never computed.
SampleRows ==
    { <<ConstantCell(None), ConstantCell(None)>>,
      <<ConstantCell(None), ConstantCell(IntZero)>>,
      <<ConstantCell(StrEmpty)>>,
      <<FormulaCell("=1>2", BoolFalse), FormulaCell("=A1", None)>> }

\* A sheet's content: its rows, or a sheet whose read raises (ok = FALSE).
SheetContents ==
    [ok : {TRUE}, rows : SeqsUpTo(SampleRows, MaxRows)]
        \cup {[ok |-> FALSE, rows |-> <<>>]}

\* What the sheets after the first hold: at most one row.
LaterSheetContents == { cs \in SheetContents : Len(cs.rows) <= 1 }

\* The sheet names of a workbook, in declaration order.
SheetNameLists == { <<"B">>, <<"B", "A">> }

Entry(kind, fmt, pages, sheets) ==
    [kind |-> kind, fmt |-> fmt, pages |-> pages, sheets |-> sheets]

AbsentEntry == Entry("absent", "none", <<>>, <<>>)
DirEntry    == Entry("dir", "none", <<>>, <<>>)
JunkFile    == Entry("file", "junk", <<>>, <<>>)

\* A zip archive that holds no workbook (no [Content_Types].xml).
ArchiveFile == Entry("file", "zip", <<>>, <<>>)

PdfFiles == { Entry("file", "pdf", ps, <<>>) : ps \in SeqsUpTo(PageItems, MaxPages) }

XlsxFiles ==
    UNION { { Entry("file", "xlsx", <<>>,
                    [i \in 1..Len(nl) |->
                        [name |-> nl[i], ok |-> cs[i].ok, rows |-> cs[i].rows]])
              : cs \in { f \in [1..Len(nl) -> SheetContents] :
                            \A i \in 2..Len(nl) : f[i] \in LaterSheetContents } }
            : nl \in SheetNameLists }

Files == {JunkFile, ArchiveFile} \cup PdfFiles \cup XlsxFiles

\* A valid instance of the format an operation expects: the library opens
\* it and reads every page or sheet of it.
ValidFor(op, e) ==
    /\ e.kind = "file"
    /\ IF op \in PdfOps
       THEN e.fmt = "pdf" /\ \A i \in 1..Len(e.pages) : e.pages[i].ok
       ELSE e.fmt = "xlsx" /\ \A i \in 1..Len(e.sheets) : e.sheets[i].ok

\* ------------------------------------------------------------------ the code
\* Mutant of Format: the message is built from the Path object instead of
\* the argument.
FormatResolved(file_path) == Path(file_path)

\* f"{file_path}" for a str argument.
Format(file_path) == file_path

NotFoundPrefix(op) == IF op \in PdfOps THEN PdfNotFoundPrefix ELSE ExcelNotFoundPrefix
FailedPrefix(op)   == IF op \in PdfOps THEN PdfFailedPrefix ELSE ExcelFailedPrefix

\* raise FileNotFoundError(f"PDF file not found: {file_path}")
NotFoundError(op, file_path) ==
    Error("FileNotFoundError", NotFoundPrefix(op) \o Format(file_path), <<>>)

\* Mutant of ExceptClause: a library FileNotFoundError is let through as it
\* is, the rest is wrapped.
ExceptClausePassNotFound(op, e) ==
    IF e.kind = "FileNotFoundError" THEN e
    ELSE Error("ValueError", FailedPrefix(op) \o e.msg, <<e>>)

\* Mutant of ExceptClause: a library FileNotFoundError becomes the
\* function's own not-found error.
ExceptClauseNotFoundAgain(op, e) ==
    IF e.kind = "FileNotFoundError"
    THEN Error("FileNotFoundError", NotFoundPrefix(op) \o e.msg, <<e>>)
    ELSE Error("ValueError", FailedPrefix(op) \o e.msg, <<e>>)

\* Mutant of ExceptClause: "from e" is missing and the message is the prefix
\* alone.
ExceptClauseNoCause(op, e) ==
    Error("ValueError", FailedPrefix(op), <<>>)

\* Mutant of ExceptClause: the library's exception is raised again as it is.
ExceptClauseReraise(op, e) == e

\* except Exception as e: raise ValueError(f"Failed to read PDF: {e}") from e
ExceptClause(op, e) ==
    Error("ValueError", FailedPrefix(op) \o e.msg, <<e>>)

\* path.exists(): true of files and of directories.
Exists(fsys, path) == fsys[path].kind # "absent"

\* PdfReader(path) / load_workbook(path, data_only=True) on what the path
\* holds: <<>> when the library opens it, <<the error>> when it raises.
LibOpen(op, e) ==
    IF e.kind = "absent" THEN <<LibFileMissing>>
    ELSE IF e.kind = "dir" THEN <<LibIsDirectory>>
    ELSE IF op \in PdfOps
         THEN (IF e.fmt = "pdf" THEN <<>> ELSE <<LibPdfInvalid>>)
         ELSE (IF e.fmt = "xlsx" THEN <<>>
               ELSE IF e.fmt = "zip" THEN <<LibNotWorkbook>>
               ELSE <<LibZipInvalid>>)

\* Mutant of DataOnly: extract_sheets opens the workbook with
\* load_workbook(path), data_only left at its default.
DataOnlyReadXlsxOnly(op) == op = "read_xlsx"

\* load_workbook(path, data_only=True) in read_xlsx and in extract_sheets.
DataOnly(op) == TRUE

\* The value openpyxl gives for a stored cell: with data_only the stored
\* value, without it the formula text of a formula cell.
CellValue(data_only, cell) ==
    IF data_only \/ cell[3] = "" THEN <<cell[1], cell[2]>>
    ELSE <<"str", cell[3]>>

\* What the library holds once it has opened the entry: the document as it
\* is, the workbook with every cell as iter_rows(values_only=True) gives it.
LibLoad(op, e) ==
    IF op \in XlsxOps /\ e.fmt = "xlsx"
    THEN [e EXCEPT !.sheets =
             [i \in 1..Len(e.sheets) |->
                 [e.sheets[i] EXCEPT !.rows =
                     [r \in 1..Len(e.sheets[i].rows) |->
                         [j \in 1..Len(e.sheets[i].rows[r]) |->
                             CellValue(DataOnly(op), e.sheets[i].rows[r][j])]]]]]
    ELSE e

\* The file handle of the call once PdfReader(path) / load_workbook(path,
\* data_only=True) has returned or raised; the functions have no "with" and
\* no close() of their own, the handle is what the library left.  "none":
\* the operating system gave no handle.  PdfReader reads the file into
\* memory and closes it.  load_workbook closes the archive at the end of a
\* read that succeeded and ZipFile closes what is no zip archive; an archive
\* whose manifest cannot be read stays open in the reader the exception's
\* traceback refers to.
LibHandle(op, e) ==
    IF e.kind # "file" THEN "none"
    ELSE IF op \in XlsxOps /\ e.fmt = "zip" THEN "open"
    ELSE "closed"

\* Mutant of Items: the sheets are visited in the order of their names
\* (sorted(workbook.sheetnames), for the names "A" and "B").
ItemsSortedByName(op, reader) ==
    IF op \in PdfOps THEN reader.pages
    ELSE SelectSeq(reader.sheets, LAMBDA sh : sh.name = "A")
            \o SelectSeq(reader.sheets, LAMBDA sh : sh.name # "A")

\* reader.pages / workbook.sheetnames of an opened file.
Items(op, reader) == IF op \in PdfOps THEN reader.pages ELSE reader.sheets

\* page.extract_text() / workbook[sheet_name] and its iter_rows: <<>> or
\* <<the error>>.
LibRead(op, item) ==
    IF item.ok THEN <<>>
    ELSE IF op \in PdfOps THEN <<LibPdfBadPage>> ELSE <<LibBadSheet>>

\* Mutant of ReadPdfBody: every page's text is appended.
ReadPdfBodyKeepAll(text_parts, text) == Append(text_parts, text)

\* read_pdf's loop body: if text.strip(): text_parts.append(text)
ReadPdfBody(text_parts, text) ==
    IF Len(Strip(text)) > 0 THEN Append(text_parts, text) ELSE text_parts

\* Mutant of ExtractTextByPageBody: blank pages are skipped, as in read_pdf.
ExtractTextByPageBodySkipBlank(pages, page_num, text) ==
    IF Len(Strip(text)) > 0
    THEN Append(pages, [page |-> page_num, text |-> text, char_count |-> Len(text)])
    ELSE pages

\* Mutant of ExtractTextByPageBody: the characters are counted after strip().
ExtractTextByPageBodyCountStripped(pages, page_num, text) ==
    Append(pages, [page |-> page_num, text |-> text, char_count |-> Len(Strip(text))])

\* extract_text_by_page's loop body.
ExtractTextByPageBody(pages, page_num, text) ==
    Append(pages, [page |-> page_num, text |-> text, char_count |-> Len(text)])

\* Mutant of AnyNotNone: all(cell is not None for cell in row)
AllNotNone(row) == \A i \in 1..Len(row) : row[i] # None

\* Mutant of AnyNotNone: any(row), the truth value of the cells.
AnyTruthy(row) ==
    \E i \in 1..Len(row) : row[i] \notin {None, IntZero, StrEmpty, BoolFalse}

\* any(cell is not None for cell in row)
AnyNotNone(row) == \E i \in 1..Len(row) : row[i] # None

RECURSIVE RetainedRowsReversed(_)
\* Mutant of RetainedRows: data.insert(0, list(row))
RetainedRowsReversed(rows) ==
    IF Len(rows) = 0 THEN <<>>
    ELSE IF AnyNotNone(rows[1]) THEN RetainedRowsReversed(Tail(rows)) \o <<rows[1]>>
    ELSE RetainedRowsReversed(Tail(rows))

RECURSIVE RetainedRows(_)
\* The inner loop of both spreadsheet operations: data.append(list(row)) for
\* the rows that are not completely empty.
RetainedRows(rows) ==
    IF Len(rows) = 0 THEN <<>>
    ELSE IF AnyNotNone(rows[1]) THEN <<rows[1]>> \o RetainedRows(Tail(rows))
    ELSE RetainedRows(Tail(rows))

\* result[key] = value on an insertion-ordered dict, kept as <<key, value>>
\* pairs: an existing key keeps its place.
DictSet(d, key, value) ==
    IF \E i \in 1..Len(d) : d[i][1] = key
    THEN [i \in 1..Len(d) |-> IF d[i][1] = key THEN <<key, value>> ELSE d[i]]
    ELSE Append(d, <<key, value>>)

\* Mutant of ReadXlsxBody: "if data: result[sheet_name] = data".
ReadXlsxBodySkipEmpty(result, sheet_name, rows) ==
    IF Len(RetainedRows(rows)) > 0
    THEN DictSet(result, sheet_name, RetainedRows(rows))
    ELSE result

\* read_xlsx's outer loop body: result[sheet_name] = data
ReadXlsxBody(result, sheet_name, rows) ==
    DictSet(result, sheet_name, RetainedRows(rows))

\* Mutant of ExtractSheetsBody: rows counts the rows of the sheet, not of
\* data.
ExtractSheetsBodyCountSheetRows(sheets, sheet_name, rows) ==
    LET data == RetainedRows(rows)
    IN  Append(sheets, [name    |-> sheet_name,
                        rows    |-> Len(rows),
                        columns |-> IF Len(data) > 0 THEN Len(data[1]) ELSE 0,
                        data    |-> data])

\* Mutant of ExtractSheetsBody: columns is the width of the widest row.
ExtractSheetsBodyMaxWidth(sheets, sheet_name, rows) ==
    LET data == RetainedRows(rows)
    IN  Append(sheets, [name    |-> sheet_name,
                        rows    |-> Len(data),
                        columns |-> IF Len(data) > 0
                                    THEN CHOOSE w \in { Len(data[k]) : k \in 1..Len(data) } :
                                            \A k \in 1..Len(data) : Len(data[k]) <= w
                                    ELSE 0,
                        data    |-> data])

\* Mutant of ExtractSheetsBody: the completely empty rows are kept.
ExtractSheetsBodyKeepEmpty(sheets, sheet_name, rows) ==
    Append(sheets, [name    |-> sheet_name,
                    rows    |-> Len(rows),
                    columns |-> IF Len(rows) > 0 THEN Len(rows[1]) ELSE 0,
                    data    |-> rows])

\* extract_sheets' outer loop body.
ExtractSheetsBody(sheets, sheet_name, rows) ==
    LET data == RetainedRows(rows)
    IN  Append(sheets, [name    |-> sheet_name,
                        rows    |-> Len(data),
                        columns |-> IF Len(data) > 0 THEN Len(data[1]) ELSE 0,
                        data    |-> data])

\* One pass of the loop of op over the idx-th item (enumerate(..., start=1)).
LoopBody(op, acc, idx, item) ==
    CASE op = "read_pdf"             -> ReadPdfBody(acc, item.text)
      [] op = "extract_text_by_page" -> ExtractTextByPageBody(acc, idx, item.text)
      [] op = "read_xlsx"            -> ReadXlsxBody(acc, item.name, item.rows)
      [] op = "extract_sheets"       -> ExtractSheetsBody(acc, item.name, item.rows)

\* Mutant of ReturnValue: read_pdf joins with one newline.
ReturnValueSingleNewline(op, acc) ==
    IF op = "read_pdf" THEN Join(<<"\n">>, acc) ELSE acc

\* The return statement of op.
ReturnValue(op, acc) ==
    IF op = "read_pdf" THEN Join(<<"\n", "\n">>, acc) ELSE acc

\* ------------------------------------------------------------------ backend application
\* Strings of the backend are tuples of pieces; a literal is one piece.
\* A JSON object is a sequence of <<key path, value>>.

\* FastAPI(title="Backend API", version="0.1.0", ...) and the CORS
\* middleware's allow_origins=["*"], allow_credentials=True.
AllowOrigins     == <<"*">>
AllowCredentials == TRUE

Methods  == {"GET", "POST"}
UrlPaths == {"/", "/api/hello", "/api/health", "/invalid"}

\* The request's Origin header: absent or present.
Origins == { <<>>, <<"http://localhost:3000">> }

\* The paths the router has a route for, all of them GET routes.
RoutePaths == {"/", "/api/hello", "/api/health"}

Digits == <<"0", "1", "2", "3", "4", "5", "6", "7", "8", "9">>

\* datetime.isoformat() of the aware UTC time t microseconds after the
\* clock's start: the fraction is left out when the microsecond is 0.
IsoFormat(t) ==
    <<"1970-01-01T00:00:00">>
        \o (IF t % 1000000 = 0 THEN <<>> ELSE <<".", "00000", Digits[t + 1]>>)
        \o <<"+00:00">>

\* str.replace(old, new), piece by piece.
Replace(str, old, new) ==
    [i \in 1..Len(str) |-> IF str[i] = old THEN new ELSE str[i]]

\* datetime.now(timezone.utc).isoformat().replace("+00:00", "Z")
Timestamp(t) == Replace(IsoFormat(t), "+00:00", "Z")

\* What the CORS middleware adds to the response of a request that has an
\* Origin header and no cookie.
CorsHeaders(origin) ==
    IF Len(origin) = 0 THEN <<>>
    ELSE (IF AllowOrigins = <<"*">>
          THEN << <<"access-control-allow-origin", "*">> >>
          ELSE << <<"access-control-allow-origin", origin[1]>> >>)
         \o (IF AllowCredentials
             THEN << <<"access-control-allow-credentials", "true">> >>
             ELSE <<>>)

\* A response: status, media type, the JSON object of its body (<<>> when
\* the body is no JSON), the template it renders (<<>> or <<name, title>>),
\* and the CORS headers.
Response(status, media, json, html, headers) ==
    [status |-> status, media |-> media, json |-> json, html |-> html,
     headers |-> headers]

NoResponse == Response(0, "", <<>>, <<>>, <<>>)

IdleHttp ==
    [pc |-> "idle", method |-> "", path |-> "", origin |-> <<>>,
     resp |-> NoResponse]

\* templates.TemplateResponse(request=request, name="index.html",
\*                            context={"title": "Hello World App"})
IndexResponse ==
    Response(200, "text/html; charset=utf-8", <<>>,
             <<"index.html", "Hello World App">>, <<>>)

\* The dict api_hello returns, as the JSON response FastAPI makes of it.
ApiHelloResponse(t) ==
    Response(200, "application/json",
             << << <<"message">>, <<"Hello World">> >>,
                << <<"app">>, <<"backend">> >>,
                << <<"version">>, <<"0.1.0">> >>,
                << <<"timestamp">>, Timestamp(t) >> >>,
             <<>>, <<>>)

\* The dict api_health returns.
ApiHealthResponse(t) ==
    Response(200, "application/json",
             << << <<"status">>, <<"healthy">> >>,
                << <<"timestamp">>, Timestamp(t) >> >>,
             <<>>, <<>>)

\* The router's answers to a path without a route and to a route without
\* the request's method.
NotFoundResponse ==
    Response(404, "application/json",
             << << <<"detail">>, <<"Not Found">> >> >>, <<>>, <<>>)

MethodNotAllowedResponse ==
    Response(405, "application/json",
             << << <<"detail">>, <<"Method Not Allowed">> >> >>, <<>>, <<>>)

\* ------------------------------------------------------------------ secure CORS example
\* The characters of a value of ALLOWED_ORIGINS: "a" for an origin's text,
\* the wildcard and the separator.
EnvChars == {"a", "*", ","}

\* "http://localhost:3000,http://localhost:8080", in pieces.
DefaultAllowedOrigins == <<"http://localhost:3000", ",", "http://localhost:8080">>

\* os.getenv(name, default) on a variable that is unset (<<>>) or set
\* (<<value>>).
Getenv(environ, default) == IF Len(environ) = 0 THEN default ELSE environ[1]

RECURSIVE Split(_, _)
\* str.split(sep): the parts between the separators, empty parts included.
Split(str, sep) ==
    IF \A i \in 1..Len(str) : str[i] # sep THEN <<str>>
    ELSE LET i == CHOOSE k \in 1..Len(str) :
                     str[k] = sep /\ \A j \in 1..(k - 1) : str[j] # sep
         IN  <<SubSeq(str, 1, i - 1)>> \o Split(SubSeq(str, i + 1, Len(str)), sep)

\* The module before its import: the variable unset, nothing configured.
NotImported ==
    [pc |-> "start", environ |-> <<>>, ALLOWED_ORIGINS |-> <<>>,
     allow_origins |-> <<>>, allow_credentials |-> FALSE]

\* ------------------------------------------------------------------ state
VARIABLES
    fs,     \* the file system: path -> what it holds
    call,   \* each caller's current (or last) extractor call
    http,   \* the backend application's current (or last) request
    clock,  \* the UTC clock, in microseconds after its start
    example \* the module examples/02-fix-security-issue/after.py

vars == <<fs, call, http, clock, example>>

\* pc: idle, check (before path.exists()), open (inside try, before the
\* library opens the file), iter (in the loop), done (returned or raised).
\* ret and exc are <<>> or hold the value returned / the exception raised.
\* lib counts the library interactions of the call; seen is what the library
\* found at the path when it opened it; handle is the file handle of the
\* call (none, open, closed); start is what the path held when the call
\* began; prev is <<>> or holds the outcome of the call this one repeats.
IdleCall ==
    [pc |-> "idle", op |-> "none", file_path |-> <<>>, path |-> <<".">>,
     reader |-> AbsentEntry, idx |-> 0, acc |-> <<>>,
     ret |-> <<>>, exc |-> <<>>, lib |-> 0, seen |-> <<>>,
     handle |-> "none", start |-> AbsentEntry, prev |-> <<>>]

Callers == {"c1"}

\* The call sites of the program: the caller above and one that runs
\* beside it.
CallSites == Callers \cup {"c2"}

Init ==
    /\ \E ef \in {AbsentEntry, DirEntry} \cup Files :
       \E eg \in {AbsentEntry, DirEntry} :
          fs = [p \in FsPaths |->
                   IF p = <<"f">> THEN ef ELSE IF p = <<"g">> THEN eg ELSE DirEntry]
    /\ call = [c \in CallSites |-> IdleCall]
    /\ http = IdleHttp
    /\ clock = 0
    /\ example = NotImported

\* The frame after an exception left the function: locals are gone, the
\* caller has the exception and no value.
Raised(rec, e) ==
    [rec EXCEPT !.pc = "done", !.exc = <<e>>, !.acc = <<>>,
                !.reader = AbsentEntry, !.idx = 0]

\* Mutant of TryFailed: the try block covers the open only, an exception of a
\* later page or sheet read leaves the function as it is.
TryFailedOpenOnly(rec, e) ==
    IF rec.pc = "open" THEN Raised(rec, ExceptClause(rec.op, e)) ELSE Raised(rec, e)

\* Mutant of TryFailed: the except clause returns what was accumulated.
TryFailedPartial(rec, e) ==
    [rec EXCEPT !.pc = "done", !.ret = <<ReturnValue(rec.op, rec.acc)>>,
                !.acc = <<>>, !.reader = AbsentEntry, !.idx = 0]

\* The frame after an exception inside the try block: the except clause
\* raises its ValueError.
TryFailed(rec, e) == Raised(rec, ExceptClause(rec.op, e))

\* The frame after "return": the caller has the value.
Returned(rec) ==
    [rec EXCEPT !.pc = "done", !.ret = <<ReturnValue(rec.op, rec.acc)>>,
                !.acc = <<>>, !.reader = AbsentEntry, !.idx = 0]

\* A caller calls op(file_path): path = Path(file_path).
Call(c, op, file_path) ==
    /\ call[c].pc \in {"idle", "done"}
    /\ call' = [call EXCEPT ![c] =
                   [IdleCall EXCEPT !.pc = "check", !.op = op,
                                    !.file_path = file_path,
                                    !.path = Path(file_path),
                                    !.start = fs[Path(file_path)]]]
    /\ UNCHANGED <<fs, http, clock, example>>

\* The caller calls the same function on the same path again; the file is as
\* it was when the finished call began.
Repeat(c) ==
    /\ call[c].pc = "done"
    /\ fs[call[c].path] = call[c].start
    /\ call' = [call EXCEPT ![c] =
                   [IdleCall EXCEPT !.pc = "check", !.op = call[c].op,
                                    !.file_path = call[c].file_path,
                                    !.path = Path(call[c].file_path),
                                    !.start = fs[Path(call[c].file_path)],
                                    !.prev = <<[start |-> call[c].start,
                                                ret |-> call[c].ret,
                                                exc |-> call[c].exc]>>]]
    /\ UNCHANGED <<fs, http, clock, example>>

\* if not path.exists(): raise FileNotFoundError(...)
CheckExists(c) ==
    /\ call[c].pc = "check"
    /\ call' = [call EXCEPT ![c] =
                   IF Exists(fs, call[c].path)
                   THEN [call[c] EXCEPT !.pc = "open"]
                   ELSE Raised(call[c], NotFoundError(call[c].op, call[c].file_path))]
    /\ UNCHANGED <<fs, http, clock, example>>

\* Mutant of InitialAccumulator: the list is a mutable default argument, one
\* object for all calls; a repeated call goes on with the list the call
\* before it returned.
SharedAccumulator(rec) ==
    IF /\ Len(rec.prev) > 0
       /\ Len(rec.prev[1].ret) > 0
       /\ rec.op \in {"extract_text_by_page", "extract_sheets"}
    THEN rec.prev[1].ret[1]
    ELSE <<>>

\* Mutant of InitialAccumulator: the list is a module-level object; a call
\* that begins its loop while another call of the same function is in its
\* loop goes on with what that call has accumulated.
ModuleLevelAccumulator(rec) ==
    LET others == { d \in CallSites : /\ call[d].pc = "iter"
                                      /\ call[d].op = rec.op
                                      /\ call[d].path # rec.path }
    IN  IF others = {} THEN <<>> ELSE call[CHOOSE d \in others : TRUE].acc

\* text_parts = [] / pages = [] / result = {} / sheets = []
InitialAccumulator(rec) == <<>>

\* reader = PdfReader(path) / workbook = load_workbook(path, data_only=True),
\* then the empty accumulator.
Open(c) ==
    /\ call[c].pc = "open"
    /\ LET rec == [call[c] EXCEPT !.lib = @ + 1, !.seen = <<LibLoad(call[c].op, fs[call[c].path])>>,
                                  !.handle = LibHandle(call[c].op, fs[call[c].path])]
           err == LibOpen(rec.op, fs[rec.path])
       IN  call' = [call EXCEPT ![c] =
                       IF Len(err) > 0
                       THEN TryFailed(rec, err[1])
                       ELSE [rec EXCEPT !.pc = "iter",
                                        !.reader = LibLoad(rec.op, fs[rec.path]),
                                        !.idx = 0, !.acc = InitialAccumulator(rec)]]
    /\ UNCHANGED <<fs, http, clock, example>>

\* One pass of the for loop: read the next page or sheet and run the body.
Iterate(c) ==
    /\ call[c].pc = "iter"
    /\ call[c].idx < Len(Items(call[c].op, call[c].reader))
    /\ LET rec  == [call[c] EXCEPT !.lib = @ + 1]
           item == Items(rec.op, rec.reader)[rec.idx + 1]
           err  == LibRead(rec.op, item)
       IN  call' = [call EXCEPT ![c] =
                       IF Len(err) > 0
                       THEN TryFailed(rec, err[1])
                       ELSE [rec EXCEPT !.idx = @ + 1,
                                        !.acc = LoopBody(rec.op, rec.acc, rec.idx + 1, item)]]
    /\ UNCHANGED <<fs, http, clock, example>>

\* The loop is exhausted: return.
Return(c) ==
    /\ call[c].pc = "iter"
    /\ call[c].idx = Len(Items(call[c].op, call[c].reader))
    /\ call' = [call EXCEPT ![c] = Returned(call[c])]
    /\ UNCHANGED <<fs, http, clock, example>>

\* Another process removes a file.
Remove(p) ==
    /\ fs[p].kind = "file"
    /\ fs' = [fs EXCEPT ![p] = AbsentEntry]
    /\ UNCHANGED <<call, http, clock, example>>

Next ==
    \/ \E c \in Callers, op \in Ops, p \in PathStrings : Call(c, op, p)
    \/ \E c \in Callers : CheckExists(c)
    \/ \E c \in Callers : Open(c)
    \/ \E c \in Callers : Iterate(c)
    \/ \E c \in Callers : Return(c)
    \/ \E p \in FsPaths : Remove(p)

Spec == Init /\ [][Next]_vars

\* The same program with callers that repeat their calls.
NextRepeat ==
    \/ Next
    \/ \E c \in Callers : Repeat(c)

SpecRepeat == Init /\ [][NextRepeat]_vars

\* ------------------------------------------------------------------ two call sites
\* The files two concurrent calls work on: an invalid file, documents of
\* two pages that begin with a page "x", workbooks of one sheet of one row.
PairFiles ==
    {JunkFile}
        \cup { e \in PdfFiles : /\ Len(e.pages) = 2
                                /\ e.pages[1] = [ok |-> TRUE, text |-> <<"x">>] }
        \cup { e \in XlsxFiles : /\ Len(e.sheets) = 1
                                 /\ e.sheets[1].ok
                                 /\ Len(e.sheets[1].rows) = 1 }

\* Each call site has its own file path.
PairPath(c) == IF c = "c1" THEN <<"f">> ELSE <<"g", "/">>

InitPair ==
    /\ \E ef \in PairFiles : \E eg \in PairFiles :
          fs = [p \in FsPaths |->
                   IF p = <<"f">> THEN ef ELSE IF p = <<"g">> THEN eg ELSE DirEntry]
    /\ call = [c \in CallSites |-> IdleCall]
    /\ http = IdleHttp
    /\ clock = 0
    /\ example = NotImported

\* The steps of the two calls, interleaved in any order.
NextPair ==
    \/ \E c \in CallSites, op \in Ops : Call(c, op, PairPath(c))
    \/ \E c \in CallSites : CheckExists(c)
    \/ \E c \in CallSites : Open(c)
    \/ \E c \in CallSites : Iterate(c)
    \/ \E c \in CallSites : Return(c)

SpecPair == InitPair /\ [][NextPair]_vars

\* ------------------------------------------------------------------ backend actions
\* A client sends a request to the application.
Request(method, path, origin) ==
    /\ http.pc \in {"idle", "responded"}
    /\ http' = [pc |-> "received", method |-> method, path |-> path,
                origin |-> origin, resp |-> NoResponse]
    /\ UNCHANGED <<fs, call, clock, example>>

\* The response leaves through the CORS middleware.
Respond(resp) ==
    /\ http' = [http EXCEPT !.pc = "responded",
                            !.resp = [resp EXCEPT !.headers = CorsHeaders(http.origin)]]
    /\ UNCHANGED <<fs, call, clock, example>>

\* @router.get("/", response_class=HTMLResponse)
index ==
    /\ http.pc = "received" /\ http.method = "GET" /\ http.path = "/"
    /\ Respond(IndexResponse)

\* @router.get("/api/hello")
api_hello ==
    /\ http.pc = "received" /\ http.method = "GET" /\ http.path = "/api/hello"
    /\ Respond(ApiHelloResponse(clock))

\* @router.get("/api/health")
api_health ==
    /\ http.pc = "received" /\ http.method = "GET" /\ http.path = "/api/health"
    /\ Respond(ApiHealthResponse(clock))

\* No route has the path.
NotFound ==
    /\ http.pc = "received" /\ http.path \notin RoutePaths
    /\ Respond(NotFoundResponse)

\* A route has the path, none has the method.
MethodNotAllowed ==
    /\ http.pc = "received" /\ http.path \in RoutePaths /\ http.method # "GET"
    /\ Respond(MethodNotAllowedResponse)

\* Time passes.
Tick ==
    /\ clock < MaxClock
    /\ clock' = clock + 1
    /\ UNCHANGED <<fs, call, http, example>>

\* The application after create_app(), no extractor in use.
InitHttp ==
    /\ fs = [p \in FsPaths |-> IF p = <<".">> THEN DirEntry ELSE AbsentEntry]
    /\ call = [c \in CallSites |-> IdleCall]
    /\ http = IdleHttp
    /\ clock = 0
    /\ example = NotImported

NextHttp ==
    \/ \E method \in Methods, path \in UrlPaths, origin \in Origins :
          Request(method, path, origin)
    \/ index
    \/ api_hello
    \/ api_health
    \/ NotFound
    \/ MethodNotAllowed
    \/ Tick

SpecHttp == InitHttp /\ [][NextHttp]_vars

\* ------------------------------------------------------------------ secure CORS example actions
\* The environment sets ALLOWED_ORIGINS.
Setenv(value) ==
    /\ example' = [example EXCEPT !.environ = <<value>>]
    /\ UNCHANGED <<fs, call, http, clock>>

\* The environment unsets ALLOWED_ORIGINS.
Unsetenv ==
    /\ Len(example.environ) > 0
    /\ example' = [example EXCEPT !.environ = <<>>]
    /\ UNCHANGED <<fs, call, http, clock>>

\* ALLOWED_ORIGINS = os.getenv("ALLOWED_ORIGINS", "...").split(",")
ImportModule ==
    /\ example.pc = "start"
    /\ example' = [example EXCEPT
                      !.pc = "imported",
                      !.ALLOWED_ORIGINS =
                          Split(Getenv(example.environ, DefaultAllowedOrigins), ",")]
    /\ UNCHANGED <<fs, call, http, clock>>

\* app.add_middleware(CORSMiddleware, allow_origins=ALLOWED_ORIGINS,
\*                    allow_credentials=True, ...)
create_app ==
    /\ example.pc \in {"imported", "created"}
    /\ example' = [example EXCEPT !.pc = "created",
                                  !.allow_origins = example.ALLOWED_ORIGINS,
                                  !.allow_credentials = TRUE]
    /\ UNCHANGED <<fs, call, http, clock>>

InitCors ==
    /\ fs = [p \in FsPaths |-> IF p = <<".">> THEN DirEntry ELSE AbsentEntry]
    /\ call = [c \in CallSites |-> IdleCall]
    /\ http = IdleHttp
    /\ clock = 0
    /\ example = NotImported

NextCors ==
    \/ \E value \in SeqsUpTo(EnvChars, MaxEnvLen) : Setenv(value)
    \/ Unsetenv
    \/ ImportModule
    \/ create_app

SpecCors == InitCors /\ [][NextCors]_vars

\* ------------------------------------------------------------------ whole runs
RECURSIVE LoopFrom(_, _, _, _)
\* The for loop of op over items, from the idx-th item on, with no failure.
LoopFrom(op, items, idx, acc) ==
    IF idx = Len(items) THEN acc
    ELSE LoopFrom(op, items, idx + 1, LoopBody(op, acc, idx + 1, items[idx + 1]))

\* What op returns on an opened file all of whose pages or sheets read.
RunToReturn(op, e) == ReturnValue(op, LoopFrom(op, Items(op, e), 0, <<>>))

\* ------------------------------------------------------------------ outcomes
Done(c) == call[c].pc = "done"

\* The caller got a value and no exception.
IsSuccess(rec) == Len(rec.ret) = 1 /\ Len(rec.exc) = 0

\* The caller got NotFound (FileNotFoundError) and no value.
IsNotFound(rec) ==
    Len(rec.ret) = 0 /\ Len(rec.exc) = 1 /\ rec.exc[1].kind = "FileNotFoundError"

\* The caller got ParseFailure (ValueError) and no value.
IsParseFailure(rec) ==
    Len(rec.ret) = 0 /\ Len(rec.exc) = 1 /\ rec.exc[1].kind = "ValueError"

\* The first page or sheet of items whose read raises (0: none).
FirstBad(items) ==
    IF \E i \in 1..Len(items) : ~items[i].ok
    THEN CHOOSE i \in 1..Len(items) :
            ~items[i].ok /\ \A j \in 1..(i - 1) : items[j].ok
    ELSE 0

\* ------------------------------------------------------------------ C1
\* C1: whichever of the four extractors is called, when the existence check
\* runs on a path that resolves to nothing, the call ends there in NotFound
\* (FileNotFoundError, no value), and the message contains the path string
\* exactly as the caller supplied it.
C1_NotFoundNamesSuppliedPath ==
    [][\A c \in Callers :
          ( /\ call[c].pc = "check"
            /\ call'[c].pc # "check"
            /\ fs[Path(call[c].file_path)].kind = "absent" )
          => ( /\ call'[c].pc = "done"
               /\ IsNotFound(call'[c])
               /\ Contains(call'[c].exc[1].msg, call[c].file_path) )]_vars

\* C1 witness: a call with a path string that pathlib rewrites ("g/", "./f")
\* ended in NotFound.
C1_Witness ==
    \E c \in Callers :
        /\ Done(c)
        /\ IsNotFound(call[c])
        /\ call[c].file_path # Path(call[c].file_path)
        /\ Len(call[c].file_path) > 0

\* ------------------------------------------------------------------ C2
\* C2: a call that ended in NotFound had no interaction with the parsing
\* library: the library was never asked to open the file nor to read from it.
C2_NotFoundBeforeLibrary ==
    \A c \in Callers :
        (Done(c) /\ Len(call[c].exc) = 1 /\ call[c].exc[1].kind = "FileNotFoundError")
        => (call[c].lib = 0 /\ call[c].seen = <<>>)

\* C2 witness: a spreadsheet call on f, which holds nothing, ended in
\* NotFound with the library untouched.
C2_Witness ==
    \E c \in Callers :
        /\ Done(c)
        /\ call[c].op \in XlsxOps
        /\ IsNotFound(call[c])
        /\ call[c].path = <<"f">>
        /\ call[c].lib = 0

\* ------------------------------------------------------------------ C3
\* C3: a call that passed the existence check and whose library found
\* something that is not a valid instance of the expected format (wrong
\* format, a directory, a page or sheet that fails to read) ended in
\* ParseFailure (ValueError); no library exception type reaches the caller.
C3_InvalidEndsInParseFailure ==
    \A c \in Callers :
        /\ (Done(c) /\ Len(call[c].seen) = 1 /\ ~ValidFor(call[c].op, call[c].seen[1]))
           => IsParseFailure(call[c])
        /\ (Done(c) /\ Len(call[c].exc) = 1)
           => call[c].exc[1].kind \in {"FileNotFoundError", "ValueError"}
        /\ (Done(c) /\ Len(call[c].exc) = 1 /\ call[c].lib > 0)
           => call[c].exc[1].kind = "ValueError"

\* C3 witness: the library opened an existing file of the right format and a
\* later page or sheet read failed; the call ended in ParseFailure.
C3_Witness ==
    \E c \in Callers :
        /\ Done(c)
        /\ Len(call[c].seen) = 1
        /\ call[c].seen[1].kind = "file"
        /\ call[c].lib > 1
        /\ IsParseFailure(call[c])

\* ------------------------------------------------------------------ C4
\* The fixed prefixes as the claim gives them.
C4_Prefix(op) ==
    IF op \in {"read_pdf", "extract_text_by_page"}
    THEN <<"F", "a", "i", "l", "e", "d", " ", "t", "o", " ", "r", "e", "a", "d", " ", "P", "D", "F", ":", " ">>
    ELSE <<"F", "a", "i", "l", "e", "d", " ", "t", "o", " ", "r", "e", "a", "d", " ", "E", "x", "c", "e", "l", " ", "f", "i", "l", "e", ":", " ">>

\* The error the library raised in a call that saw e: at open, or at the
\* first page or sheet that fails.
C4_LibraryError(op, e) ==
    IF Len(LibOpen(op, e)) = 1 THEN LibOpen(op, e)[1]
    ELSE LibRead(op, Items(op, e)[FirstBad(Items(op, e))])[1]

\* C4: every ParseFailure carries the library's error as its cause, and its
\* message is the extractor's fixed prefix followed by that error's text.
C4_ParseFailureKeepsCause ==
    \A c \in Callers :
        (Done(c) /\ Len(call[c].exc) = 1 /\ call[c].exc[1].kind = "ValueError")
        => /\ Len(call[c].seen) = 1
           /\ call[c].exc[1].cause = <<C4_LibraryError(call[c].op, call[c].seen[1])>>
           /\ call[c].exc[1].msg
                = C4_Prefix(call[c].op) \o call[c].exc[1].cause[1].msg

\* C4 witness: a spreadsheet call ended in ParseFailure on a file that is not
\* a workbook.
C4_Witness ==
    \E c \in Callers :
        /\ Done(c)
        /\ call[c].op \in XlsxOps
        /\ IsParseFailure(call[c])
        /\ Len(call[c].seen) = 1
        /\ call[c].seen[1].kind = "file"
        /\ call[c].seen[1].fmt # "xlsx"

\* ------------------------------------------------------------------ C5
\* C5: a finished call has exactly one of three outcomes: a value, NotFound,
\* or ParseFailure, never a value together with an exception and never
\* another exception type; an unfinished call has neither and can always
\* take its next step.
C5_ExactlyOneOutcome ==
    \A c \in Callers :
        /\ Done(c) =>
              /\ Len(call[c].ret) + Len(call[c].exc) = 1
              /\ (IsSuccess(call[c]) \/ IsNotFound(call[c]) \/ IsParseFailure(call[c]))
        /\ ~Done(c) => (Len(call[c].ret) = 0 /\ Len(call[c].exc) = 0)
        /\ call[c].pc \in {"check", "open", "iter"}
              => ENABLED (CheckExists(c) \/ Open(c) \/ Iterate(c) \/ Return(c))

\* C5 witness: extract_sheets returned the entries of a two-sheet workbook.
C5_Witness ==
    \E c \in Callers :
        /\ Done(c)
        /\ call[c].op = "extract_sheets"
        /\ IsSuccess(call[c])
        /\ Len(call[c].ret[1]) = 2

\* ------------------------------------------------------------------ C6
\* C6: a call in which the library failed, at open or at a later page or
\* sheet, gave its caller the exception and no value, whatever had been
\* accumulated; the library was used once up to the failure and not again.
C6_FailureAbortsWholeCall ==
    \A c \in Callers :
        /\ (Done(c) /\ Len(call[c].seen) = 1 /\ ~ValidFor(call[c].op, call[c].seen[1]))
           => /\ Len(call[c].ret) = 0
              /\ Len(call[c].exc) = 1
              /\ call[c].lib =
                    IF Len(LibOpen(call[c].op, call[c].seen[1])) = 1 THEN 1
                    ELSE 1 + FirstBad(Items(call[c].op, call[c].seen[1]))
        /\ (Done(c) /\ Len(call[c].exc) = 1) => Len(call[c].ret) = 0

\* C6 witness: the first page or sheet was read and processed, the second
\* failed, and the call ended with an exception.
C6_Witness ==
    \E c \in Callers :
        /\ Done(c)
        /\ call[c].op \in {"extract_text_by_page", "read_xlsx"}
        /\ Len(call[c].exc) = 1
        /\ call[c].lib = 3
        /\ Len(call[c].seen) = 1
        /\ Items(call[c].op, call[c].seen[1])[1].ok

\* ------------------------------------------------------------------ C7
\* C7: on a valid document of N pages extract_text_by_page returns N
\* entries, empty pages included, numbered 1, 2, ..., N in this order.
C7_OneEntryPerPage ==
    \A c \in Callers :
        ( /\ Done(c)
          /\ call[c].op = "extract_text_by_page"
          /\ Len(call[c].seen) = 1
          /\ ValidFor(call[c].op, call[c].seen[1]) )
        => /\ IsSuccess(call[c])
           /\ Len(call[c].ret[1]) = Len(call[c].seen[1].pages)
           /\ \A i \in 1..Len(call[c].ret[1]) : call[c].ret[1][i].page = i

\* C7 witness: a two-page document with an empty page gave two entries.
C7_Witness ==
    \E c \in Callers :
        /\ Done(c)
        /\ call[c].op = "extract_text_by_page"
        /\ IsSuccess(call[c])
        /\ Len(call[c].ret[1]) = 2
        /\ \E i \in 1..2 : Len(call[c].seen[1].pages[i].text) = 0

\* ------------------------------------------------------------------ C8
\* C8: in every entry extract_text_by_page returns, text is the text the
\* library gave for that page, whitespace included, and char_count is its
\* length.
C8_CharCountIsTextLength ==
    \A c \in Callers :
        (Done(c) /\ call[c].op = "extract_text_by_page" /\ Len(call[c].ret) = 1)
        => \A i \in 1..Len(call[c].ret[1]) :
              /\ i <= Len(call[c].seen[1].pages)
              /\ call[c].ret[1][i].text = call[c].seen[1].pages[i].text
              /\ call[c].ret[1][i].char_count = Len(call[c].ret[1][i].text)

\* C8 witness: an entry whose text has whitespace around it.
C8_Witness ==
    \E c \in Callers :
        /\ Done(c)
        /\ call[c].op = "extract_text_by_page"
        /\ Len(call[c].ret) = 1
        /\ \E i \in 1..Len(call[c].ret[1]) :
              /\ call[c].ret[1][i].char_count = 3
              /\ call[c].ret[1][i].text[1] = " "

\* ------------------------------------------------------------------ C9
\* A text that is empty or whitespace only.
C9_IsBlank(t) == \A i \in 1..Len(t) : t[i] = " " \/ t[i] = "\n"

\* The entries whose text is not blank, in order.
C9_Retained(entries) == SelectSeq(entries, LAMBDA en : ~C9_IsBlank(en.text))

RECURSIVE C9_JoinTexts(_)
\* The texts of the entries with two newlines between consecutive ones.
C9_JoinTexts(entries) ==
    IF Len(entries) = 0 THEN <<>>
    ELSE IF Len(entries) = 1 THEN entries[1].text
    ELSE C9_JoinTexts(SubSeq(entries, 1, Len(entries) - 1))
            \o <<"\n", "\n">> \o entries[Len(entries)].text

\* C9: on a valid document, what read_pdf returns is the texts of
\* extract_text_by_page's entries that are not blank, unmodified, in page
\* order, with exactly two newlines between consecutive ones; stated for a
\* finished read_pdf call against extract_text_by_page on the same document
\* and for a finished extract_text_by_page call against read_pdf.
C9_FullTextIsJoinOfPages ==
    \A c \in Callers :
        /\ ( /\ Done(c)
             /\ call[c].op = "read_pdf"
             /\ Len(call[c].seen) = 1
             /\ ValidFor("read_pdf", call[c].seen[1]) )
           => /\ IsSuccess(call[c])
              /\ call[c].ret[1] =
                    C9_JoinTexts(C9_Retained(
                        RunToReturn("extract_text_by_page", call[c].seen[1])))
        /\ ( /\ Done(c)
             /\ call[c].op = "extract_text_by_page"
             /\ Len(call[c].seen) = 1
             /\ ValidFor("extract_text_by_page", call[c].seen[1]) )
           => /\ IsSuccess(call[c])
              /\ RunToReturn("read_pdf", call[c].seen[1]) =
                    C9_JoinTexts(C9_Retained(call[c].ret[1]))

\* C9 witness: read_pdf returned the two texts of a two-page document whose
\* first page has whitespace around its text.
C9_Witness ==
    \E c \in Callers :
        /\ Done(c)
        /\ call[c].op = "read_pdf"
        /\ IsSuccess(call[c])
        /\ Len(call[c].seen[1].pages) = 2
        /\ call[c].ret[1] = <<" ", "x", "\n", "\n", "\n", "x">>

\* ------------------------------------------------------------------ C10
\* The keys of a mapping.
C10_Names(m) == { m[i][1] : i \in 1..Len(m) }

\* mapping[name]
C10_Lookup(m, name) == m[CHOOSE i \in 1..Len(m) : m[i][1] = name][2]

\* A mapping and a list of sheet entries with the same names and, under each
\* name, the same rows.
C10_Agree(m, sheets) ==
    /\ C10_Names(m) = { sheets[i].name : i \in 1..Len(sheets) }
    /\ \A i \in 1..Len(sheets) : C10_Lookup(m, sheets[i].name) = sheets[i].data

\* C10: on a valid workbook read_xlsx and extract_sheets agree: the names are
\* the same and the rows under a name are the data of the entry with that
\* name; stated for a finished call of either against the other operation on
\* the same workbook.
C10_MappingAgreesWithSheets ==
    \A c \in Callers :
        /\ ( /\ Done(c)
             /\ call[c].op = "read_xlsx"
             /\ Len(call[c].seen) = 1
             /\ ValidFor("read_xlsx", call[c].seen[1]) )
           => /\ IsSuccess(call[c])
              /\ C10_Agree(call[c].ret[1],
                           RunToReturn("extract_sheets", call[c].seen[1]))
        /\ ( /\ Done(c)
             /\ call[c].op = "extract_sheets"
             /\ Len(call[c].seen) = 1
             /\ ValidFor("extract_sheets", call[c].seen[1]) )
           => /\ IsSuccess(call[c])
              /\ C10_Agree(RunToReturn("read_xlsx", call[c].seen[1]),
                           call[c].ret[1])

\* C10 witness: read_xlsx returned the mapping of a two-sheet workbook one of
\* whose sheets has an all-empty row beside a retained one.
C10_Witness ==
    \E c \in Callers :
        /\ Done(c)
        /\ call[c].op = "read_xlsx"
        /\ IsSuccess(call[c])
        /\ Len(call[c].ret[1]) = 2
        /\ \E i \in 1..2 :
              /\ Len(call[c].seen[1].sheets[i].rows) = 2
              /\ Len(call[c].ret[1][i][2]) = 1

\* ------------------------------------------------------------------ sheets
\* The rows an operation's return value holds for the sheet called name.
SheetData(op, value, name) ==
    IF op = "read_xlsx"
    THEN value[CHOOSE i \in 1..Len(value) : value[i][1] = name][2]
    ELSE value[CHOOSE i \in 1..Len(value) : value[i].name = name].data

\* A finished spreadsheet call of c that returned the content of a valid
\* workbook.
XlsxReturned(c) ==
    /\ Done(c)
    /\ call[c].op \in XlsxOps
    /\ Len(call[c].ret) = 1
    /\ Len(call[c].seen) = 1

\* ------------------------------------------------------------------ C11
\* C11: in every entry extract_sheets returns, rows is the number of rows of
\* data, and columns is the number of cells of data's first row, or 0 when
\* data is empty.
C11_RowsAndColumnsOfData ==
    \A c \in Callers :
        (Done(c) /\ call[c].op = "extract_sheets" /\ Len(call[c].ret) = 1)
        => \A i \in 1..Len(call[c].ret[1]) :
              LET en == call[c].ret[1][i]
              IN  /\ en.rows = Len(en.data)
                  /\ en.columns = IF Len(en.data) = 0 THEN 0 ELSE Len(en.data[1])

\* C11 witness: an entry with one row of data from a sheet of two rows, and
\* an entry with no data.
C11_Witness ==
    \E c \in Callers :
        /\ Done(c)
        /\ call[c].op = "extract_sheets"
        /\ Len(call[c].ret) = 1
        /\ Len(call[c].ret[1]) = 2
        /\ call[c].ret[1][1].rows = 1
        /\ Len(call[c].seen[1].sheets[1].rows) = 2
        /\ call[c].ret[1][2].columns = 0

\* ------------------------------------------------------------------ C12
\* A row with at least one cell that is not the empty marker.
C12_HasValue(row) == \E j \in 1..Len(row) : row[j] # <<"NoneType", "None">>

\* C12: for every sheet and both spreadsheet operations, a source row is
\* among the extracted rows exactly when one of its cells is not the empty
\* marker, and every extracted row is a source row as it was: same cells,
\* same order, same values and types.
C12_RowsRetainedIffNotEmpty ==
    \A c \in Callers :
        XlsxReturned(c) =>
            \A i \in 1..Len(call[c].seen[1].sheets) :
                LET src  == call[c].seen[1].sheets[i].rows
                    data == SheetData(call[c].op, call[c].ret[1],
                                      call[c].seen[1].sheets[i].name)
                IN  /\ \A k \in 1..Len(src) :
                          C12_HasValue(src[k])
                              <=> \E m \in 1..Len(data) : data[m] = src[k]
                    /\ \A m \in 1..Len(data) :
                          \E k \in 1..Len(src) : data[m] = src[k]

\* C12 witness: a retained row that holds an empty marker beside a number,
\* from a sheet that also has an all-empty row.
C12_Witness ==
    \E c \in Callers :
        /\ XlsxReturned(c)
        /\ call[c].op = "read_xlsx"
        /\ call[c].seen[1].sheets[1].rows
              = << <<None, None>>, <<None, IntZero>> >>
        /\ call[c].ret[1][1][2] = << <<None, IntZero>> >>

\* ------------------------------------------------------------------ C13
\* C13: on a valid workbook extract_sheets returns one entry per sheet in
\* declaration order, and the keys of read_xlsx's mapping are in the same
\* order.
C13_SheetsInDeclarationOrder ==
    \A c \in Callers :
        ( /\ Done(c)
          /\ call[c].op \in XlsxOps
          /\ Len(call[c].seen) = 1
          /\ ValidFor(call[c].op, call[c].seen[1]) )
        => /\ IsSuccess(call[c])
           /\ Len(call[c].ret[1]) = Len(call[c].seen[1].sheets)
           /\ \A i \in 1..Len(call[c].ret[1]) :
                 (IF call[c].op = "read_xlsx"
                  THEN call[c].ret[1][i][1]
                  ELSE call[c].ret[1][i].name) = call[c].seen[1].sheets[i].name

\* C13 witness: extract_sheets returned the sheets "B", "A" in this order.
C13_Witness ==
    \E c \in Callers :
        /\ Done(c)
        /\ call[c].op = "extract_sheets"
        /\ IsSuccess(call[c])
        /\ Len(call[c].ret[1]) = 2
        /\ call[c].ret[1][1].name = "B"
        /\ call[c].ret[1][2].name = "A"

\* ------------------------------------------------------------------ C18
\* C18: on a valid document with no page of non-blank text (no page, or
\* every page empty or whitespace only) read_pdf returns the empty string,
\* as a value and not as an error.
C18_EmptyStringWhenAllBlank ==
    \A c \in Callers :
        ( /\ Done(c)
          /\ call[c].op = "read_pdf"
          /\ Len(call[c].seen) = 1
          /\ ValidFor("read_pdf", call[c].seen[1])
          /\ \A i \in 1..Len(call[c].seen[1].pages) :
                C9_IsBlank(call[c].seen[1].pages[i].text) )
        => /\ IsSuccess(call[c])
           /\ call[c].ret[1] = <<>>

\* C18 witness: read_pdf returned from a document of two pages, one empty
\* and one of whitespace.
C18_Witness ==
    \E c \in Callers :
        /\ Done(c)
        /\ call[c].op = "read_pdf"
        /\ IsSuccess(call[c])
        /\ Len(call[c].seen[1].pages) = 2
        /\ call[c].seen[1].pages[1].text = <<>>
        /\ call[c].seen[1].pages[2].text = <<" ">>

\* ------------------------------------------------------------------ C19
\* The positions of the source rows that have a value.
C19_Kept(src) == { k \in 1..Len(src) : C12_HasValue(src[k]) }

\* The m-th smallest position of S.
C19_Nth(S, m) == CHOOSE k \in S : Cardinality({ j \in S : j < k }) = m - 1

\* C19: for every sheet the extracted rows are the source rows that have a
\* value, each once, in the order they have in the sheet.
C19_RetainedRowsKeepOrder ==
    \A c \in Callers :
        XlsxReturned(c) =>
            \A i \in 1..Len(call[c].seen[1].sheets) :
                LET src  == call[c].seen[1].sheets[i].rows
                    data == SheetData(call[c].op, call[c].ret[1],
                                      call[c].seen[1].sheets[i].name)
                IN  /\ Len(data) = Cardinality(C19_Kept(src))
                    /\ \A m \in 1..Len(data) : data[m] = src[C19_Nth(C19_Kept(src), m)]

\* C19 witness: two different retained rows of one sheet, returned by
\* extract_sheets.
C19_Witness ==
    \E c \in Callers :
        /\ XlsxReturned(c)
        /\ call[c].op = "extract_sheets"
        /\ call[c].ret[1][1].data = << <<StrEmpty>>, <<None, IntZero>> >>

\* ------------------------------------------------------------------ C20
\* C20: when the retained rows of a sheet differ in width, extract_sheets
\* reports as columns the width of the first retained row, and every row of
\* data has the cells of its source row, neither padded nor cut.
C20_ColumnsIsFirstRowWidth ==
    \A c \in Callers :
        (XlsxReturned(c) /\ call[c].op = "extract_sheets") =>
            \A i \in 1..Len(call[c].ret[1]) :
                LET en   == call[c].ret[1][i]
                    src  == call[c].seen[1].sheets[i].rows
                    kept == C19_Kept(src)
                IN  (\E j, k \in kept : Len(src[j]) # Len(src[k]))
                    => /\ en.columns = Len(src[C19_Nth(kept, 1)])
                       /\ Len(en.data) = Cardinality(kept)
                       /\ \A m \in 1..Len(en.data) :
                             /\ Len(en.data[m]) = Len(src[C19_Nth(kept, m)])
                             /\ en.data[m] = src[C19_Nth(kept, m)]

\* C20 witness: columns is 1 for a sheet whose second retained row has two
\* cells.
C20_Witness ==
    \E c \in Callers :
        /\ XlsxReturned(c)
        /\ call[c].op = "extract_sheets"
        /\ call[c].ret[1][1].columns = 1
        /\ Len(call[c].ret[1][1].data) = 2
        /\ Len(call[c].ret[1][1].data[2]) = 2

\* ------------------------------------------------------------------ C14
\* C14: a call that repeats a call on the same path, with the file as it was
\* when the first of the two began and still so when the second ends, ends
\* as the first did: the same returned value, or an exception of the same
\* type with the same message.
C14_SameOutcome(rec, before) ==
    /\ rec.ret = before.ret
    /\ Len(rec.exc) = Len(before.exc)
    /\ Len(rec.exc) > 0 =>
          /\ rec.exc[1].kind = before.exc[1].kind
          /\ rec.exc[1].msg = before.exc[1].msg

C14_Unmodified(c) ==
    /\ Len(call[c].prev) > 0
    /\ call[c].prev[1].start = call[c].start
    /\ fs[call[c].path] = call[c].start

\* C14: repeated calls on the same unmodified file have identical outcomes.
C14_RepeatedCallsAgree ==
    \A c \in Callers :
        (Done(c) /\ C14_Unmodified(c)) => C14_SameOutcome(call[c], call[c].prev[1])

\* A repeated extract_text_by_page call on an unmodified document has
\* returned, and a page is in its list.
C14_Witness ==
    \E c \in Callers :
        /\ Done(c)
        /\ C14_Unmodified(c)
        /\ call[c].op = "extract_text_by_page"
        /\ IsSuccess(call[c])
        /\ Len(call[c].ret[1]) > 0
        /\ Len(call[c].prev[1].ret) > 0

\* ------------------------------------------------------------------ C15
\* C15: when a call that went to the library to open its file has returned
\* or raised, the file handle is not open.
C15_HandleClosedAtExit ==
    \A c \in Callers :
        (Done(c) /\ call[c].lib > 0) => call[c].handle # "open"

\* ------------------------------------------------------------------ C17
\* C17: a call on a path that holds no file, from its beginning to its end (a
\* missing path or a directory), ends in NotFound and not in ParseFailure.
C17_NotAFileEndsInNotFound ==
    \A c \in Callers :
        (Done(c) /\ call[c].start.kind # "file" /\ fs[call[c].path].kind # "file")
            => (IsNotFound(call[c]) /\ ~IsParseFailure(call[c]))

\* ------------------------------------------------------------------ C16
\* The value of a key path in a JSON object: <<>> or <<the value>>.
C16_Get(json, key) ==
    LET hits == SelectSeq(json, LAMBDA kv : kv[1] = key)
    IN  IF Len(hits) = 0 THEN <<>> ELSE <<hits[1][2]>>

\* C16: the answer to GET / is 200 with a JSON body whose name is
\* "Backend API", whose version is "0.1.0" and whose endpoints object has
\* health "/api/health" and hello "/api/hello".
C16_RootAnswersApiInformation ==
    (http.pc = "responded" /\ http.method = "GET" /\ http.path = "/") =>
        /\ http.resp.status = 200
        /\ http.resp.media = "application/json"
        /\ C16_Get(http.resp.json, <<"name">>) = << <<"Backend API">> >>
        /\ C16_Get(http.resp.json, <<"version">>) = << <<"0.1.0">> >>
        /\ C16_Get(http.resp.json, <<"endpoints", "health">>) = << <<"/api/health">> >>
        /\ C16_Get(http.resp.json, <<"endpoints", "hello">>) = << <<"/api/hello">> >>

\* ------------------------------------------------------------------ C22
\* The value a file's cell stores, and the text of its formula as a value.
C22_Stored(cell)      == <<cell[1], cell[2]>>
C22_FormulaText(cell) == <<"str", cell[3]>>

C22_IsFormula(cell) == cell[3] # ""

\* A returned row is the stored values of the file's row.
C22_IsStoredRow(row, stored) ==
    /\ Len(row) = Len(stored)
    /\ \A j \in 1..Len(row) : row[j] = C22_Stored(stored[j])

\* C22: whichever spreadsheet operation returned, every row it returned for
\* a sheet is a row of that sheet with each cell as its stored value, a
\* formula cell as the value last computed for it, and no returned cell of
\* a formula's column is the formula's text.
C22_FormulaCellsAsComputedValues ==
    \A c \in Callers :
        (Done(c) /\ call[c].op \in XlsxOps /\ IsSuccess(call[c])) =>
            \A i \in 1..Len(call[c].start.sheets) :
                LET stored == call[c].start.sheets[i].rows
                    data   == SheetData(call[c].op, call[c].ret[1],
                                        call[c].start.sheets[i].name)
                IN  /\ \A m \in 1..Len(data) :
                          \E k \in 1..Len(stored) : C22_IsStoredRow(data[m], stored[k])
                    /\ \A k \in 1..Len(stored) : \A j \in 1..Len(stored[k]) :
                          C22_IsFormula(stored[k][j]) =>
                              \A m \in 1..Len(data) :
                                  j <= Len(data[m]) =>
                                      data[m][j] # C22_FormulaText(stored[k][j])

\* C22 witness: extract_sheets returned a row for a row of two formulas, the
\* value False computed for the first and None for the second, never
\* computed.
C22_Witness ==
    \E c \in Callers :
        /\ Done(c)
        /\ call[c].op = "extract_sheets"
        /\ IsSuccess(call[c])
        /\ call[c].start.sheets[1].rows
              = << <<FormulaCell("=1>2", BoolFalse), FormulaCell("=A1", None)>> >>
        /\ call[c].ret[1][1].data = << <<BoolFalse, None>> >>

\* ------------------------------------------------------------------ C24
C24_AllAbsent(row) == \A j \in 1..Len(row) : row[j] = <<"NoneType", "None">>

C24_HasFalsy(row) ==
    \E j \in 1..Len(row) :
        row[j] \in { <<"str", "">>, <<"int", "0">>, <<"bool", "False">> }

\* C24: for both spreadsheet operations, a row whose cells are all None is
\* not among the returned rows of its sheet, and a row that has an empty
\* string, the number 0 or False in a cell is.
C24_OnlyNoneIsEmpty ==
    \A c \in Callers :
        XlsxReturned(c) =>
            \A i \in 1..Len(call[c].seen[1].sheets) :
                LET src  == call[c].seen[1].sheets[i].rows
                    data == SheetData(call[c].op, call[c].ret[1],
                                      call[c].seen[1].sheets[i].name)
                IN  \A k \in 1..Len(src) :
                        /\ C24_AllAbsent(src[k])
                              => ~ \E m \in 1..Len(data) : data[m] = src[k]
                        /\ C24_HasFalsy(src[k])
                              => \E m \in 1..Len(data) : data[m] = src[k]

\* C24 witness: read_xlsx dropped an all-None row and kept a row with False
\* in the first sheet, and kept a row that is one empty string in the second.
C24_Witness ==
    \E c \in Callers :
        /\ XlsxReturned(c)
        /\ call[c].op = "read_xlsx"
        /\ Len(call[c].seen[1].sheets) = 2
        /\ call[c].seen[1].sheets[1].rows = << <<None, None>>, <<BoolFalse, None>> >>
        /\ call[c].seen[1].sheets[2].rows = << <<StrEmpty>> >>
        /\ call[c].ret[1][1][2] = << <<BoolFalse, None>> >>
        /\ call[c].ret[1][2][2] = << <<StrEmpty>> >>

\* ------------------------------------------------------------------ C25
\* C25: a call whose existence check succeeded and whose open step finds
\* the file gone ends in ParseFailure with the library's file-missing error
\* as cause, not in NotFound; and a call comes to end in NotFound by its
\* existence check only.
C25_RemovedBeforeOpenIsParseFailure ==
    [][\A c \in Callers :
          /\ ( /\ call[c].pc = "open"
               /\ call'[c].pc # "open"
               /\ fs[call[c].path].kind = "absent" )
             => ( /\ call'[c].pc = "done"
                  /\ IsParseFailure(call'[c])
                  /\ ~IsNotFound(call'[c])
                  /\ call'[c].exc[1].cause = <<LibFileMissing>> )
          /\ ( /\ call[c].pc # "done"
               /\ call'[c].pc = "done"
               /\ IsNotFound(call'[c]) )
             => call[c].pc = "check"]_vars

\* C25 witness: a call that began on a file, found nothing when it opened
\* it, and ended in ParseFailure.
C25_Witness ==
    \E c \in Callers :
        /\ Done(c)
        /\ call[c].start.kind = "file"
        /\ call[c].lib = 1
        /\ call[c].seen = <<AbsentEntry>>
        /\ IsParseFailure(call[c])
        /\ call[c].exc[1].cause = <<LibFileMissing>>

\* ------------------------------------------------------------------ C26
\* No row of the sheet has a cell that is not None.
C26_NothingToRetain(rows) ==
    \A k \in 1..Len(rows) : \A j \in 1..Len(rows[k]) : rows[k][j] = <<"NoneType", "None">>

\* C26: a spreadsheet call that returned has one entry per sheet of the
\* workbook; for a sheet with no rows or all-None rows only, read_xlsx has
\* its name with an empty list, and extract_sheets has an entry with rows 0,
\* columns 0 and empty data.
C26_EmptySheetsAreKept ==
    \A c \in Callers :
        XlsxReturned(c) =>
            LET sheets == call[c].seen[1].sheets
                value  == call[c].ret[1]
            IN  /\ Len(value) = Len(sheets)
                /\ \A i \in 1..Len(sheets) :
                      C26_NothingToRetain(sheets[i].rows) =>
                          IF call[c].op = "read_xlsx"
                          THEN \E n \in 1..Len(value) :
                                  value[n] = <<sheets[i].name, <<>>>>
                          ELSE \E n \in 1..Len(value) :
                                  /\ value[n].name = sheets[i].name
                                  /\ value[n].rows = 0
                                  /\ value[n].columns = 0
                                  /\ value[n].data = <<>>

\* C26 witness: read_xlsx returned two names, the first for a sheet of two
\* all-None rows and the second for a sheet without rows, both with an empty
\* list.
C26_Witness ==
    \E c \in Callers :
        /\ XlsxReturned(c)
        /\ call[c].op = "read_xlsx"
        /\ Len(call[c].seen[1].sheets) = 2
        /\ call[c].seen[1].sheets[1].rows = << <<None, None>>, <<None, None>> >>
        /\ call[c].seen[1].sheets[2].rows = <<>>
        /\ call[c].ret[1] = << <<"B", <<>>>>, <<"A", <<>>>> >>

\* ------------------------------------------------------------------ C21
\* The outcome of op(file_path) run alone on a path that holds e: what it
\* returns (<<>> or <<value>>) and what it raises (<<>> or <<exception>>).
C21_Alone(op, file_path, e) ==
    LET opened == LibOpen(op, e)
        loaded == LibLoad(op, e)
        items  == Items(op, loaded)
        bad    == FirstBad(items)
    IN  IF e.kind = "absent"
        THEN [ret |-> <<>>, exc |-> <<NotFoundError(op, file_path)>>]
        ELSE IF Len(opened) > 0
        THEN [ret |-> <<>>, exc |-> <<ExceptClause(op, opened[1])>>]
        ELSE IF bad > 0
        THEN [ret |-> <<>>, exc |-> <<ExceptClause(op, LibRead(op, items[bad])[1])>>]
        ELSE [ret |-> <<RunToReturn(op, loaded)>>, exc |-> <<>>]

\* C21: whatever another call site does meanwhile on another path, a call on
\* a file nobody modifies ends as the same call ends when it runs alone:
\* the same value, or the same exception.
C21_OutcomeAsWhenAlone ==
    \A c \in CallSites :
        (Done(c) /\ fs[call[c].path] = call[c].start) =>
            LET alone == C21_Alone(call[c].op, call[c].file_path, call[c].start)
            IN  /\ call[c].ret = alone.ret
                /\ call[c].exc = alone.exc

\* C21 witness: one call site has its list of two pages while the other,
\* running the same function on another path, is in its loop with one page
\* read.
C21_Witness ==
    /\ Done("c1")
    /\ call["c1"].op = "extract_text_by_page"
    /\ IsSuccess(call["c1"])
    /\ Len(call["c1"].ret[1]) = 2
    /\ call["c2"].op = "extract_text_by_page"
    /\ call["c2"].pc = "iter"
    /\ call["c2"].idx = 1
    /\ call["c2"].path # call["c1"].path

\* ------------------------------------------------------------------ C23
\* C23: whatever ALLOWED_ORIGINS holds, or unset, the application made by
\* create_app never has the wildcard "*" among its allowed origins with
\* allow_credentials true.
C23_NoWildcardWithCredentials ==
    example.pc = "created" =>
        ~ ( /\ example.allow_credentials
            /\ \E i \in 1..Len(example.allow_origins) :
                  example.allow_origins[i] = <<"*">> )

====
